---- MODULE Spec2Model ----
(***************************************************************************)
(* sam2covWig: windowed coverage of SAM alignments written as a fixedStep  *)
(* wiggle track.  The model follows src/sam2covWig.py statement by         *)
(* statement: the @SQ header loop, the record loop (skip of '*' CIGARs,    *)
(* reference transition, window advance, span computation, increment of    *)
(* the covered windows) and the final flush.                               *)
(*                                                                         *)
(* Strings that the program scans (CIGARs) are sequences of one-character  *)
(* strings, so that the regular expression of sumTargetConsumingCigarOps   *)
(* is modelled by the scan it performs.                                    *)
(***************************************************************************)
EXTENDS Integers, Sequences, FiniteSets, TLC

VARIABLES
    pc,                    \* position of the main program
    hdr,                   \* header lines of the input not yet read
    chr_lens,              \* dict: reference name -> length (from @SQ lines)
    windows,               \* deque of per-window counts
    current_chr,
    current_chr_len,
    current_window_start,
    fields,                \* target_name, target_start, cigar of the current line
    target_len,
    target_end,
    out,                   \* lines printed to stdout, oldest first
    seen,                  \* history: the mapped records taken up so far
    nread,                 \* number of tabular lines read so far
    err,                   \* the uncaught exception that ended the run, or ""
    cigar_ops              \* SpecCigar: the (length, operation) pairs of the CIGAR

vars == <<pc, hdr, chr_lens, windows, current_chr, current_chr_len,
          current_window_start, fields, target_len, target_end, out, seen,
          nread, err, cigar_ops>>

----------------------------------------------------------------------------
(* Bounds of the model and the inputs it draws.                            *)

MaxRecords == 3            \* tabular lines per run
MaxOps == 2                \* CIGAR operations per string in SpecCigar

\* WINDOW_SIZE = args.window; the value of the documented scenarios.
WINDOW_SIZE == 5

\* The CIGAR of a record that did not map.
STAR == <<"*">>

Digits == <<"0", "1", "2", "3", "4", "5", "6", "7", "8", "9">>

IsDigit(c) == \E d \in 1..10 : Digits[d] = c

DigitValue(c) == (CHOOSE d \in 1..10 : Digits[d] = c) - 1

\* The character class [=DMX] of TARGET_CONSUMERS_REGEX.
TargetConsumersNoX(c) == c \in {"=", "D", "M"}

TargetConsumers(c) == c \in {"=", "D", "M", "X"}

\* int(match.group(1)) of a run of decimal digits.
RECURSIVE IntOf(_)
IntOf(ds) ==
    IF ds = <<>> THEN 0
    ELSE 10 * IntOf(SubSeq(ds, 1, Len(ds) - 1)) + DigitValue(ds[Len(ds)])

\* End of the maximal run of digits starting at position i (i - 1 if none).
RECURSIVE DigitRunEnd(_, _)
DigitRunEnd(cigar, i) ==
    IF i <= Len(cigar) /\ IsDigit(cigar[i]) THEN DigitRunEnd(cigar, i + 1)
    ELSE i - 1

\* re.finditer(r'([0-9]+)[=DMX]', cigar) from position i on, summing group 1.
\* [0-9]+ is greedy; a shorter run is followed by a digit, never by an
\* operation, so backtracking finds nothing and the scan resumes one
\* character further.
RECURSIVE ScanFrom(_, _)
ScanFrom(cigar, i) ==
    IF i > Len(cigar) THEN 0
    ELSE LET e == DigitRunEnd(cigar, i)
         IN  IF e >= i /\ e + 1 <= Len(cigar) /\ TargetConsumers(cigar[e + 1])
             THEN IntOf(SubSeq(cigar, i, e)) + ScanFrom(cigar, e + 2)
             ELSE ScanFrom(cigar, i + 1)

sumTargetConsumingCigarOps(cigar) == ScanFrom(cigar, 1)

----------------------------------------------------------------------------
(* collections.deque operations used by the program.                       *)

\* deque.rotate(1): the last element moves to the front.
RotateRight1(w) ==
    IF Len(w) <= 1 THEN w ELSE <<w[Len(w)]>> \o SubSeq(w, 1, Len(w) - 1)

RotateLeft1WrongWay(w) ==
    IF Len(w) <= 1 THEN w ELSE <<w[Len(w)]>> \o SubSeq(w, 1, Len(w) - 1)

\* deque.rotate(-1): the first element moves to the back.
RotateLeft1(w) ==
    IF Len(w) <= 1 THEN w ELSE Tail(w) \o <<Head(w)>>

\* deque.rotate(n): n steps to the right, -n steps to the left when n < 0.
RECURSIVE rotate(_, _)
rotate(w, n) ==
    IF n = 0 \/ w = <<>> THEN w
    ELSE IF n > 0 THEN rotate(RotateRight1(w), n - 1)
    ELSE rotate(RotateLeft1(w), n + 1)

\* math.ceil(n / d) for integers n and d > 0.
Ceil(n, d) == -((-n) \div d)

RECURSIVE AppendZerosAlways(_, _)
AppendZerosAlways(w, n) ==
    IF n <= 0 THEN w ELSE AppendZerosAlways(Append(w, 0), n - 1)

\* while len(windows) < num_windows_covered: windows.append(0)
RECURSIVE AppendZeros(_, _)
AppendZeros(w, n) ==
    IF Len(w) < n THEN AppendZeros(Append(w, 0), n) ELSE w

\* for i in range(n): windows.appendleft(windows.pop() + 1)
RECURSIVE PopIncrementAppendLeft(_, _)
PopIncrementAppendLeft(w, n) ==
    IF n <= 0 THEN w
    ELSE PopIncrementAppendLeft(
             <<w[Len(w)] + 1>> \o SubSeq(w, 1, Len(w) - 1), n - 1)

NumWindowsCoveredHalfOpen(cws, t_end, window_size) ==
    Ceil(t_end + 2 - cws, window_size)

\* num_windows_covered =
\*     ceil((target_end + 1 - current_window_start) / window_size)
NumWindowsCovered(cws, t_end, window_size) ==
    Ceil(t_end + 1 - cws, window_size)

incrementCountsWithoutRotate(w, cws, t_start, t_end, t_len, window_size) ==
    LET num_windows_covered == NumWindowsCovered(cws, t_end, window_size)
        grown == AppendZeros(w, num_windows_covered)
    IN  PopIncrementAppendLeft(grown, num_windows_covered)

\* The deque that incrementCountsForCoveredWindows leaves in `windows`.
incrementCountsForCoveredWindows(w, cws, t_start, t_end, t_len, window_size) ==
    LET num_windows_covered == NumWindowsCovered(cws, t_end, window_size)
        grown == AppendZeros(w, num_windows_covered)
    IN  PopIncrementAppendLeft(rotate(grown, -num_windows_covered),
                               num_windows_covered)

\* range(a, b, step) as the sequence of its values.
RECURSIVE Range(_, _, _)
Range(a, b, step) ==
    IF a >= b THEN <<>> ELSE <<a>> \o Range(a + step, b, step)

----------------------------------------------------------------------------
(* The input.  A header line is its tag and the dict that                  *)
(* dict(re.findall(SQ_SN_REGEX, line)) yields for it; a tabular line is    *)
(* the three fields the program extracts from it.                          *)

SQ(pair) == [tag |-> "@SQ", pair |-> pair]

\* {} : a dict without keys.
EmptyDict == [n \in {} |-> 0]

\* SQ_SN_REGEX finds no SN and no LN in an @HD line.
HD == [tag |-> "@HD", pair |-> EmptyDict]

GoodHeader ==
    <<HD, SQ([SN |-> "chr1", LN |-> 10]), SQ([SN |-> "chr2", LN |-> 7])>>

Headers ==
    { GoodHeader,
      <<SQ([SN |-> "chr1", LN |-> 10]), SQ([SN |-> "chr2"])>>,
      <<SQ([LN |-> 10])>>,
      <<HD, SQ(EmptyDict)>> }

Starts == {1, 6, 7}

\* Spans 0, 2, 5 and 10.
MappedCigars ==
    { <<"5", "S">>,
      <<"2", "M">>,
      <<"2", "M", "1", "I", "3", "D">>,
      <<"1", "0", "M">> }

Records ==
    [target_name : {"chr1", "chr2"}, target_start : Starts,
     cigar : MappedCigars]
    \cup [target_name : {"chr1"}, target_start : {11}, cigar : {<<"2", "M">>}]
    \cup [target_name : {"chrU"}, target_start : {1}, cigar : {<<"2", "M">>}]
    \cup [target_name : {"*", "chr2"}, target_start : {0, 6}, cigar : {STAR}]

NoFields == [target_name |-> "", target_start |-> 0, cigar |-> <<>>]

----------------------------------------------------------------------------
(* Output lines.  A count line prints only `val`; `chrom` and `start` note *)
(* the reference and the window start the program's cursor gives the line. *)

TrackLine == [kind |-> "track", chrom |-> "", start |-> 0, val |-> 0]

StepLine(chrom, start) ==
    [kind |-> "step", chrom |-> chrom, start |-> start, val |-> WINDOW_SIZE]

CountLine(chrom, start, val) ==
    [kind |-> "count", chrom |-> chrom, start |-> start, val |-> val]

FlushLinesNoZeroTail(w, cws, chrom, chr_len) ==
    [i \in 1..Len(w) |-> CountLine(chrom, cws + (i - 1) * WINDOW_SIZE, w[i])]

FlushLinesCursorNotAdvanced(w, cws, chrom, chr_len) ==
    [i \in 1..Len(w) |-> CountLine(chrom, cws + (i - 1) * WINDOW_SIZE, w[i])]
    \o LET zeros == Range(cws, chr_len + 1, WINDOW_SIZE)
       IN  [i \in 1..Len(zeros) |-> CountLine(chrom, zeros[i], 0)]

\* Lines 102-110 and 159-167: the stored windows, then the 0 of every
\* window start from the advanced cursor up to the reference length.
FlushLines(w, cws, chrom, chr_len) ==
    [i \in 1..Len(w) |-> CountLine(chrom, cws + (i - 1) * WINDOW_SIZE, w[i])]
    \o LET zeros == Range(cws + Len(w) * WINDOW_SIZE, chr_len + 1, WINDOW_SIZE)
       IN  [i \in 1..Len(zeros) |-> CountLine(chrom, zeros[i], 0)]

----------------------------------------------------------------------------
(* The program.                                                            *)

Init ==
    /\ pc = "header"
    /\ hdr \in Headers
    /\ chr_lens = EmptyDict
    /\ windows = <<>>
    /\ current_chr = ""
    /\ current_chr_len = 0
    /\ current_window_start = 1
    /\ fields = NoFields
    /\ target_len = 0
    /\ target_end = 0
    /\ out = <<TrackLine>>
    /\ seen = <<>>
    /\ nread = 0
    /\ err = ""
    /\ cigar_ops = <<>>

\* Lines 75-80, one iteration on an @SQ line that has SN and LN, or on
\* another header line.
ReadHeaderLine ==
    /\ pc = "header"
    /\ hdr /= <<>>
    /\ LET h == Head(hdr)
       IN  /\ h.tag = "@SQ" => {"SN", "LN"} \subseteq DOMAIN h.pair
           /\ chr_lens' =
                  IF h.tag = "@SQ"
                  THEN [n \in DOMAIN chr_lens \cup {h.pair.SN} |->
                           IF n = h.pair.SN THEN h.pair.LN ELSE chr_lens[n]]
                  ELSE chr_lens
    /\ hdr' = Tail(hdr)
    /\ UNCHANGED <<pc, windows, current_chr, current_chr_len,
                   current_window_start, fields, target_len, target_end, out,
                   seen, nread, err, cigar_ops>>

HeaderFormatErrorSkipsLine ==
    /\ pc = "header"
    /\ hdr /= <<>>
    /\ Head(hdr).tag = "@SQ"
    /\ ~({"SN", "LN"} \subseteq DOMAIN Head(hdr).pair)
    /\ hdr' = Tail(hdr)
    /\ UNCHANGED <<pc, err, chr_lens, windows, current_chr, current_chr_len,
                   current_window_start, fields, target_len, target_end, out,
                   seen, nread, cigar_ops>>

\* Line 78: an @SQ line without SN or without LN.
HeaderFormatError ==
    /\ pc = "header"
    /\ hdr /= <<>>
    /\ Head(hdr).tag = "@SQ"
    /\ ~({"SN", "LN"} \subseteq DOMAIN Head(hdr).pair)
    /\ pc' = "aborted"
    /\ err' = "SAMformatException: @SQ"
    /\ UNCHANGED <<hdr, chr_lens, windows, current_chr, current_chr_len,
                   current_window_start, fields, target_len, target_end, out,
                   seen, nread, cigar_ops>>

\* Line 75 when the line after the header is a tabular line.
HeaderDone ==
    /\ pc = "header"
    /\ hdr = <<>>
    /\ pc' = "read"
    /\ UNCHANGED <<hdr, chr_lens, windows, current_chr, current_chr_len,
                   current_window_start, fields, target_len, target_end, out,
                   seen, nread, err, cigar_ops>>

\* Line 75 when the input ends with the header: line is '' and line[0]
\* raises IndexError.
HeaderEndOfInput ==
    /\ pc = "header"
    /\ hdr = <<>>
    /\ pc' = "aborted"
    /\ err' = "IndexError"
    /\ UNCHANGED <<hdr, chr_lens, windows, current_chr, current_chr_len,
                   current_window_start, fields, target_len, target_end, out,
                   seen, nread, cigar_ops>>

IsMappedAlways(cigar) == TRUE

\* Line 96: cigar != '*'.
IsMapped(cigar) == cigar /= STAR

\* Lines 88-96 and 155 on a line whose CIGAR is '*'.
SkipUnmapped ==
    /\ pc = "read"
    /\ nread < MaxRecords
    /\ \E f \in Records :
          /\ ~IsMapped(f.cigar)
          /\ fields' = f
    /\ nread' = nread + 1
    /\ UNCHANGED <<pc, hdr, chr_lens, windows, current_chr, current_chr_len,
                   current_window_start, target_len, target_end, out, seen,
                   err, cigar_ops>>

\* Lines 88-99 on a mapped line of the current reference.
SameReference ==
    /\ pc = "read"
    /\ nread < MaxRecords
    /\ \E f \in Records :
          /\ IsMapped(f.cigar)
          /\ current_chr = f.target_name
          /\ fields' = f
          /\ seen' = Append(seen, f)
    /\ nread' = nread + 1
    /\ pc' = "advance"
    /\ UNCHANGED <<hdr, chr_lens, windows, current_chr, current_chr_len,
                   current_window_start, target_len, target_end, out, err,
                   cigar_ops>>

ReferenceTransitionKeepsBuffer ==
    /\ pc = "read"
    /\ nread < MaxRecords
    /\ \E f \in Records :
          /\ IsMapped(f.cigar)
          /\ current_chr /= f.target_name
          /\ f.target_name \in DOMAIN chr_lens
          /\ fields' = f
          /\ seen' = Append(seen, f)
          /\ current_chr' = f.target_name
          /\ current_chr_len' = chr_lens[f.target_name]
          /\ out' = out
                    \o FlushLines(windows, current_window_start, current_chr,
                                  current_chr_len)
                    \o <<StepLine(f.target_name, 1)>>
    /\ current_window_start' = 1
    /\ nread' = nread + 1
    /\ pc' = "advance"
    /\ UNCHANGED <<windows, hdr, chr_lens, target_len, target_end, err,
                   cigar_ops>>

\* Lines 88-121 on a mapped line of another reference that the header
\* names: the previous reference is flushed and the new one declared.
ReferenceTransition ==
    /\ pc = "read"
    /\ nread < MaxRecords
    /\ \E f \in Records :
          /\ IsMapped(f.cigar)
          /\ current_chr /= f.target_name
          /\ f.target_name \in DOMAIN chr_lens
          /\ fields' = f
          /\ seen' = Append(seen, f)
          /\ current_chr' = f.target_name
          /\ current_chr_len' = chr_lens[f.target_name]
          /\ out' = out
                    \o FlushLines(windows, current_window_start, current_chr,
                                  current_chr_len)
                    \o <<StepLine(f.target_name, 1)>>
    /\ windows' = <<>>
    /\ current_window_start' = 1
    /\ nread' = nread + 1
    /\ pc' = "advance"
    /\ UNCHANGED <<hdr, chr_lens, target_len, target_end, err, cigar_ops>>

ReferenceNotFoundBeforeFlush ==
    /\ pc = "read"
    /\ nread < MaxRecords
    /\ \E f \in Records :
          /\ IsMapped(f.cigar)
          /\ current_chr /= f.target_name
          /\ f.target_name \notin DOMAIN chr_lens
          /\ fields' = f
          /\ seen' = Append(seen, f)
          /\ current_chr' = f.target_name
    /\ nread' = nread + 1
    /\ pc' = "aborted"
    /\ err' = "SAMformatException: RNAME"
    /\ UNCHANGED <<hdr, chr_lens, windows, current_window_start,
                   current_chr_len, target_len, target_end, out, cigar_ops>>

\* Lines 88-116 on a mapped line of a reference that the header does not
\* name: the previous reference is flushed, then line 116 raises.
ReferenceNotFound ==
    /\ pc = "read"
    /\ nread < MaxRecords
    /\ \E f \in Records :
          /\ IsMapped(f.cigar)
          /\ current_chr /= f.target_name
          /\ f.target_name \notin DOMAIN chr_lens
          /\ fields' = f
          /\ seen' = Append(seen, f)
          /\ current_chr' = f.target_name
    /\ out' = out \o FlushLines(windows, current_window_start, current_chr,
                                current_chr_len)
    /\ current_window_start' = current_window_start + Len(windows) * WINDOW_SIZE
    /\ windows' = <<>>
    /\ nread' = nread + 1
    /\ pc' = "aborted"
    /\ err' = "SAMformatException: RNAME"
    /\ UNCHANGED <<hdr, chr_lens, current_chr_len, target_len, target_end,
                   cigar_ops>>

PopFrontKeep(w) == w

\* Line 131: windows.popleft().
PopFront(w) == Tail(w)

AdvanceWindowShortStep ==
    /\ pc = "advance"
    /\ fields.target_start > current_window_start + WINDOW_SIZE - 1
    /\ LET current_window_coverage ==
               IF Len(windows) > 0 THEN Head(windows) ELSE 0
       IN  out' = Append(out, CountLine(current_chr, current_window_start,
                                        current_window_coverage))
    /\ windows' = IF Len(windows) > 0 THEN PopFront(windows) ELSE windows
    /\ current_window_start' = current_window_start + WINDOW_SIZE - 1
    /\ UNCHANGED <<pc, hdr, chr_lens, current_chr, current_chr_len, fields,
                   target_len, target_end, seen, nread, err, cigar_ops>>

AdvanceWindowStaysPut ==
    /\ pc = "advance"
    /\ fields.target_start > current_window_start + WINDOW_SIZE - 1
    /\ LET current_window_coverage ==
               IF Len(windows) > 0 THEN Head(windows) ELSE 0
       IN  out' = Append(out, CountLine(current_chr, current_window_start,
                                        current_window_coverage))
    /\ windows' = IF Len(windows) > 0 THEN PopFront(windows) ELSE windows
    /\ UNCHANGED <<current_window_start, pc, hdr, chr_lens, current_chr,
                   current_chr_len, fields, target_len, target_end, seen,
                   nread, err, cigar_ops>>

\* Lines 124-142, one iteration of the loop.
AdvanceWindow ==
    /\ pc = "advance"
    /\ fields.target_start > current_window_start + WINDOW_SIZE - 1
    /\ LET current_window_coverage ==
               IF Len(windows) > 0 THEN Head(windows) ELSE 0
       IN  out' = Append(out, CountLine(current_chr, current_window_start,
                                        current_window_coverage))
    /\ windows' = IF Len(windows) > 0 THEN PopFront(windows) ELSE windows
    /\ current_window_start' = current_window_start + WINDOW_SIZE
    /\ UNCHANGED <<pc, hdr, chr_lens, current_chr, current_chr_len, fields,
                   target_len, target_end, seen, nread, err, cigar_ops>>

\* Lines 124 (loop exit), 145 and 148.
ComputeSpan ==
    /\ pc = "advance"
    /\ ~(fields.target_start > current_window_start + WINDOW_SIZE - 1)
    /\ target_len' = sumTargetConsumingCigarOps(fields.cigar)
    /\ target_end' = fields.target_start + target_len' - 1
    /\ pc' = "increment"
    /\ UNCHANGED <<hdr, chr_lens, windows, current_chr, current_chr_len,
                   current_window_start, fields, out, seen, nread, err,
                   cigar_ops>>

\* Lines 152 and 155.
IncrementSpan ==
    /\ pc = "increment"
    /\ windows' = incrementCountsForCoveredWindows(
                      windows, current_window_start, fields.target_start,
                      target_end, target_len, WINDOW_SIZE)
    /\ pc' = "read"
    /\ UNCHANGED <<hdr, chr_lens, current_chr, current_chr_len,
                   current_window_start, fields, target_len, target_end, out,
                   seen, nread, err, cigar_ops>>

\* Lines 87 (loop exit) and 159-167.  The loop body has run at least once:
\* the line that ended the header loop was not ''.
EndOfInput ==
    /\ pc = "read"
    /\ nread >= 1
    /\ out' = out \o FlushLines(windows, current_window_start, current_chr,
                                current_chr_len)
    /\ current_window_start' = current_window_start + Len(windows) * WINDOW_SIZE
    /\ windows' = <<>>
    /\ pc' = "done"
    /\ UNCHANGED <<hdr, chr_lens, current_chr, current_chr_len, fields,
                   target_len, target_end, seen, nread, err, cigar_ops>>

Next ==
    \/ ReadHeaderLine
    \/ HeaderFormatError
    \/ HeaderDone
    \/ HeaderEndOfInput
    \/ SkipUnmapped
    \/ SameReference
    \/ ReferenceTransition
    \/ ReferenceNotFound
    \/ AdvanceWindow
    \/ ComputeSpan
    \/ IncrementSpan
    \/ EndOfInput

Spec == Init /\ [][Next]_vars

\* Headers of the runs whose termination is checked: they name chr1 alone,
\* so that the records of chr2 are records of an unknown reference.
LiveHeaders ==
    { <<HD, SQ([SN |-> "chr1", LN |-> 10])>>,
      <<SQ([SN |-> "chr1", LN |-> 10]), SQ([LN |-> 7])>> }

InitLive ==
    /\ pc = "header"
    /\ hdr \in LiveHeaders
    /\ chr_lens = EmptyDict
    /\ windows = <<>>
    /\ current_chr = ""
    /\ current_chr_len = 0
    /\ current_window_start = 1
    /\ fields = NoFields
    /\ target_len = 0
    /\ target_end = 0
    /\ out = <<TrackLine>>
    /\ seen = <<>>
    /\ nread = 0
    /\ err = ""
    /\ cigar_ops = <<>>

\* The interpreter keeps executing the program until it ends or raises, and
\* the input is finite (at most MaxRecords tabular lines).
SpecLive == InitLive /\ [][Next]_vars /\ WF_vars(Next)

----------------------------------------------------------------------------
(* Vocabulary of the properties.                                           *)

Min(a, b) == IF a <= b THEN a ELSE b

Max(a, b) == IF a >= b THEN a ELSE b

\* Span length of a record and the last position of its closed span.
SpanLen(f) == sumTargetConsumingCigarOps(f.cigar)

SpanEnd(f) == f.target_start + SpanLen(f) - 1

\* Window i (i >= 1) is the closed interval [1 + (i-1)*w, i*w].
WindowLo(i) == 1 + (i - 1) * WINDOW_SIZE

WindowHi(i) == i * WINDOW_SIZE

\* The closed span of f shares at least one position with window i.
Overlaps(f, i) ==
    Max(f.target_start, WindowLo(i)) <= Min(SpanEnd(f), WindowHi(i))

\* Number of mapped records of reference r taken up so far that overlap
\* window i.
Coverage(r, i) ==
    Cardinality({j \in 1..Len(seen) :
                    seen[j].target_name = r /\ Overlaps(seen[j], i)})

NumWindows(r) == Ceil(chr_lens[r], WINDOW_SIZE)

\* Positions of the step declarations in the output.
StepPositions == {i \in 1..Len(out) : out[i].kind = "step"}

\* The count lines between the step declaration at position i and the next
\* step declaration (or the end of the output so far).
NextStepAfter(i) ==
    IF \E j \in StepPositions : j > i
    THEN CHOOSE j \in StepPositions :
             j > i /\ \A k \in StepPositions : k > i => j <= k
    ELSE Len(out) + 1

CountsAfter(i) == [k \in 1..(NextStepAfter(i) - i - 1) |-> out[i + k].val]

\* The mapped records so far are sorted by reference (no reference is
\* returned to) and, within a reference, by non-decreasing start.
SortedInput ==
    \A i, j \in 1..Len(seen) :
        (i < j /\ seen[i].target_name = seen[j].target_name) =>
            /\ seen[i].target_start <= seen[j].target_start
            /\ \A k \in i..j : seen[k].target_name = seen[i].target_name

\* Every span so far lies within [1, reference length].
SpansInRange ==
    \A j \in 1..Len(seen) :
        seen[j].target_name \in DOMAIN chr_lens =>
            /\ 1 <= seen[j].target_start
            /\ SpanEnd(seen[j]) <= chr_lens[seen[j].target_name]

\* Every mapped record so far consumes at least one reference base.
SpansPositive == \A j \in 1..Len(seen) : SpanLen(seen[j]) >= 1

Finished == pc \in {"done", "aborted"}

----------------------------------------------------------------------------
(* C1: for sorted input with spans inside the reference, the i-th count    *)
(* emitted after a reference's step declaration is the number of mapped    *)
(* records of that reference whose closed span overlaps window i.          *)

CountsAreCoverage ==
    \A i \in StepPositions :
        \A k \in 1..Len(CountsAfter(i)) :
            CountsAfter(i)[k] = Coverage(out[i].chrom, k)

C1_CountsEqualOverlaps ==
    (SortedInput /\ SpansInRange) => CountsAreCoverage

\* The same statement for input in which every mapped record has a span
\* length of at least 1.
C1_PositiveSpans ==
    (SortedInput /\ SpansInRange /\ SpansPositive) => CountsAreCoverage

----------------------------------------------------------------------------
(* C2: the number of count lines of a declared reference, once it has been *)
(* flushed, is ceil(reference_length / window_size).                       *)

\* The reference declared at output position i has been flushed: another
\* declaration follows it, or the run has ended.
Flushed(i) == (\E j \in StepPositions : j > i) \/ Finished

WindowCountExact ==
    \A i \in StepPositions :
        Flushed(i) => Len(CountsAfter(i)) = NumWindows(out[i].chrom)

\* No span so far extends past the end of its reference.
SpansEndInReference ==
    \A j \in 1..Len(seen) :
        seen[j].target_name \in DOMAIN chr_lens =>
            SpanEnd(seen[j]) <= chr_lens[seen[j].target_name]

\* C2 as claimed: for any position-sorted input, every flushed reference has
\* exactly ceil(reference_length / window_size) count lines.
C2_WindowCountAnySortedInput == SortedInput => WindowCountExact

\* C2 as amended: for position-sorted input in which no span extends past
\* the end of its reference, every flushed reference has exactly
\* ceil(reference_length / window_size) count lines.
C2_WindowCountInRange ==
    (SortedInput /\ SpansEndInReference) => WindowCountExact

\* A finished sorted run over two references, the second reached by the
\* advance loop, each with its full number of count lines.
C2_Witness ==
    /\ pc = "done"
    /\ SortedInput /\ SpansEndInReference
    /\ Len(seen) = 3
    /\ seen[1].target_name = "chr1" /\ seen[3].target_name = "chr2"
    /\ seen[3].target_start = 6 /\ SpanLen(seen[3]) = 2
    /\ \E i, j \in StepPositions :
          /\ i < j
          /\ Len(CountsAfter(i)) = 2 /\ CountsAfter(j) = <<0, 1>>

----------------------------------------------------------------------------
(* C3: at the end of the run every reference of the header that had no     *)
(* mapped alignment has ceil(reference_length / window_size) count lines   *)
(* in the output, all 0.                                                   *)

\* The values of the count lines that the program's cursor gives to r.
CountsOf(r) ==
    LET IsCountOf(l) == l.kind = "count" /\ l.chrom = r
        lines == SelectSeq(out, IsCountOf)
    IN  [k \in 1..Len(lines) |-> lines[k].val]

HasAlignment(r) == \E j \in 1..Len(seen) : seen[j].target_name = r

C3_ZerosForUnalignedReferences ==
    pc = "done" =>
        \A r \in DOMAIN chr_lens :
            ~HasAlignment(r) => CountsOf(r) = [k \in 1..NumWindows(r) |-> 0]

----------------------------------------------------------------------------
(* C4: a mapped record whose span length is 0 aborts the run; the          *)
(* increment of the covered windows is not run for it and no window count  *)
(* changes.                                                                *)

C4_ZeroSpanAborts ==
    [][(pc = "increment" /\ target_len = 0)
           => (pc' = "aborted" /\ windows' = windows)]_vars

----------------------------------------------------------------------------
(* C5: a mapped record of a reference that the header does not name aborts *)
(* the run; at the abort the previous reference is completely flushed      *)
(* (the buffer is empty and every declared reference has all its windows   *)
(* in the output) and the output has no step declaration and no count line *)
(* of the unknown reference.                                               *)

UnknownReferenceSeen ==
    \E j \in 1..Len(seen) : seen[j].target_name \notin DOMAIN chr_lens

C5_UnknownReferenceAborts ==
    (pc /= "header" /\ UnknownReferenceSeen) =>
        /\ pc = "aborted"
        /\ err = "SAMformatException: RNAME"
        /\ seen[Len(seen)].target_name \notin DOMAIN chr_lens
        /\ \A j \in 1..(Len(seen) - 1) : seen[j].target_name \in DOMAIN chr_lens
        /\ windows = <<>>
        /\ \A i \in StepPositions :
               /\ Len(CountsAfter(i)) >= NumWindows(out[i].chrom)
               /\ SpansEndInReference =>
                      Len(CountsAfter(i)) = NumWindows(out[i].chrom)
        /\ \A i \in 1..Len(out) :
               out[i].chrom /= seen[Len(seen)].target_name

\* An abort on an unknown reference while the previous reference had a
\* window in the buffer and a window never stored.
C5_Witness ==
    /\ err = "SAMformatException: RNAME"
    /\ Len(seen) = 2
    /\ seen[1].target_name = "chr2" /\ seen[1].target_start = 1
    /\ SpanLen(seen[1]) = 2
    /\ \E i \in StepPositions : CountsAfter(i) = <<1, 0>>

----------------------------------------------------------------------------
(* C6: a line whose CIGAR is '*' leaves the current reference, its length, *)
(* the window start and the window buffer as they are and prints nothing,  *)
(* whatever its reference name and start.                                  *)

C6_UnmappedChangesNothing ==
    [][(pc = "read" /\ nread' = nread + 1 /\ fields'.cigar = STAR)
           => /\ pc' = "read"
              /\ UNCHANGED <<current_chr, current_chr_len,
                             current_window_start, windows, out, seen>>]_vars

\* An unmapped line of another reference, with a start behind the window
\* start, has been read while the buffer holds counts.
C6_Witness ==
    /\ pc = "read"
    /\ fields = [target_name |-> "chr2", target_start |-> 0, cigar |-> STAR]
    /\ current_chr = "chr1"
    /\ current_window_start = 6
    /\ windows = <<1, 1>>

----------------------------------------------------------------------------
(* C7: coordinates are 1-based and fully closed.  A mapped record of span  *)
(* length >= 1 that starts in or after the front window and ends on the    *)
(* last base of window j adds 1 to window j and leaves window j+1 as it    *)
(* is; a record that starts on the first base of a window adds nothing to  *)
(* the window before it.  With window size 5 and reference length 10, one  *)
(* record at 1 of span 10 gives 1,1, and two records at 1 and 6 of span 5  *)
(* give 1,1.                                                               *)

\* Number of the window that holds position p, and of the front window.
WindowOf(p) == Ceil(p, WINDOW_SIZE)

\* The count that buffer w with window start cws holds for window j (0 for
\* a window behind the last stored one).
Stored(w, cws, j) ==
    LET k == j - WindowOf(cws) + 1
    IN  IF k \in 1..Len(w) THEN w[k] ELSE 0

ClosedBoundaryStep ==
    (/\ pc = "increment" /\ pc' = "read"
     /\ target_len >= 1
     /\ fields.target_start >= current_window_start)
    => LET j == WindowOf(target_end)
           s == WindowOf(fields.target_start)
       IN  /\ target_end = WindowHi(j) =>
                 /\ Stored(windows', current_window_start', j)
                        = Stored(windows, current_window_start, j) + 1
                 /\ Stored(windows', current_window_start', j + 1)
                        = Stored(windows, current_window_start, j + 1)
           /\ (fields.target_start = WindowLo(s) /\ s >= 2) =>
                 /\ WindowOf(current_window_start') = s
                 /\ out' = out
                 /\ Stored(windows', current_window_start', s)
                        = Stored(windows, current_window_start, s) + 1

ClosedScenarios ==
    /\ (/\ pc = "done"
        /\ seen = <<[target_name |-> "chr1", target_start |-> 1,
                     cigar |-> <<"1", "0", "M">>]>>)
       => CountsOf("chr1") = <<1, 1>>
    /\ (/\ pc = "done"
        /\ Len(seen) = 2
        /\ \A j \in 1..2 : seen[j].target_name = "chr1" /\ SpanLen(seen[j]) = 5
        /\ seen[1].target_start = 1 /\ seen[2].target_start = 6)
       => CountsOf("chr1") = <<1, 1>>

C7_ClosedCoordinates == []ClosedScenarios /\ [][ClosedBoundaryStep]_vars

\* After a record over [1,10], a record over [1,5] has been counted: window
\* 1 holds 2, window 2 still 1.
C7_Witness ==
    /\ pc = "read"
    /\ Len(seen) = 2 /\ seen[2] = fields
    /\ seen[1].target_start = 1 /\ SpanLen(seen[1]) = 10
    /\ fields.target_start = 1 /\ target_end = 5
    /\ current_window_start = 1
    /\ windows = <<2, 1>>

\* The second scenario has run to its end.
C7_WitnessScenario ==
    /\ pc = "done"
    /\ Len(seen) = 2
    /\ \A j \in 1..2 : seen[j].target_name = "chr1" /\ SpanLen(seen[j]) = 5
    /\ seen[1].target_start = 1 /\ seen[2].target_start = 6
    /\ CountsOf("chr1") = <<1, 1>>

----------------------------------------------------------------------------
(* C8: step declarations come in the order in which the references' first  *)
(* mapped records occur; every count line of a reference lies between that *)
(* reference's step declaration and the next one; within a reference the   *)
(* window starts of successive count lines are 1, 1 + w, 1 + 2w, ...       *)

\* The elements of a sequence in order of first occurrence.
RECURSIVE FirstOccurrences(_)
FirstOccurrences(q) ==
    IF q = <<>> THEN <<>>
    ELSE LET front == FirstOccurrences(SubSeq(q, 1, Len(q) - 1))
             last == q[Len(q)]
         IN  IF \E k \in 1..Len(front) : front[k] = last
             THEN front ELSE Append(front, last)

\* References of the step declarations, in output order.
DeclaredReferences ==
    LET IsStep(l) == l.kind = "step"
        steps == SelectSeq(out, IsStep)
    IN  [k \in 1..Len(steps) |-> steps[k].chrom]

\* References of the mapped records that the header names, in stream order.
AlignedReferences ==
    LET Known(f) == f.target_name \in DOMAIN chr_lens
        known == SelectSeq(seen, Known)
    IN  [k \in 1..Len(known) |-> known[k].target_name]

\* No reference is returned to after records of another reference.
NoReferenceRevisited ==
    \A i, j \in 1..Len(seen) :
        (i < j /\ seen[i].target_name = seen[j].target_name) =>
            \A k \in i..j : seen[k].target_name = seen[i].target_name

C8_MonotonicEmission ==
    /\ FirstOccurrences(DeclaredReferences)
           = FirstOccurrences(AlignedReferences)
    /\ NoReferenceRevisited =>
           DeclaredReferences = FirstOccurrences(AlignedReferences)
    /\ \A i \in 1..Len(out) :
           out[i].kind = "count" =>
               /\ i >= 2
               /\ out[i - 1].kind \in {"step", "count"}
               /\ out[i - 1].chrom = out[i].chrom
               /\ out[i].start = IF out[i - 1].kind = "step" THEN 1
                                 ELSE out[i - 1].start + WINDOW_SIZE

\* A finished run over two references in which counts were printed by the
\* advance loop, from the buffer and as the zero tail.
C8_Witness ==
    /\ pc = "done"
    /\ DeclaredReferences = <<"chr2", "chr1">>
    /\ Len(seen) = 3
    /\ CountsOf("chr2") = <<1, 0>>
    /\ CountsOf("chr1") = <<0, 2>>

----------------------------------------------------------------------------
(* C9: the window buffer never holds more than                             *)
(* max(1, ceil(longest_span / window_size) + 1) elements, where            *)
(* longest_span is the largest span length of the mapped records so far.   *)

RECURSIVE MaxSpanUpTo(_)
MaxSpanUpTo(n) ==
    IF n = 0 THEN 0 ELSE Max(SpanLen(seen[n]), MaxSpanUpTo(n - 1))

LongestSpan == MaxSpanUpTo(Len(seen))

BufferBound == Max(1, Ceil(LongestSpan, WINDOW_SIZE) + 1)

C9_BufferBounded == SortedInput => Len(windows) <= BufferBound

\* The bound is met: a record of span 5 that starts on the second base of
\* its window reaches into the next one.
C9_Witness ==
    /\ pc = "read"
    /\ SortedInput
    /\ LongestSpan = 5
    /\ fields.target_start = 7
    /\ Len(windows) = 2 /\ BufferBound = 2

----------------------------------------------------------------------------
(* C11: an @SQ header line without SN or without LN aborts the run in the  *)
(* header phase: the only step from it is the abort, and then no tabular   *)
(* line has been processed and nothing but the track line is printed.      *)

LacksNameOrLength(h) ==
    h.tag = "@SQ" /\ ~("SN" \in DOMAIN h.pair /\ "LN" \in DOMAIN h.pair)

NothingProcessed ==
    /\ nread = 0 /\ seen = <<>> /\ fields = NoFields
    /\ windows = <<>> /\ current_chr = ""
    /\ out = <<TrackLine>>

HeaderPhaseProcessesNothing ==
    /\ pc = "header" => NothingProcessed
    /\ err = "SAMformatException: @SQ" =>
           /\ pc = "aborted"
           /\ hdr /= <<>> /\ LacksNameOrLength(Head(hdr))
           /\ NothingProcessed

BadHeaderLineAbortsStep ==
    (pc = "header" /\ hdr /= <<>> /\ LacksNameOrLength(Head(hdr)))
    => /\ pc' = "aborted"
       /\ err' = "SAMformatException: @SQ"
       /\ UNCHANGED <<out, nread, seen, windows, chr_lens>>

C11_HeaderFormatErrorAborts ==
    []HeaderPhaseProcessesNothing /\ [][BadHeaderLineAbortsStep]_vars

\* The abort on "@SQ SN:chr2" after the line of chr1 was taken.
C11_Witness ==
    /\ pc = "aborted"
    /\ err = "SAMformatException: @SQ"
    /\ chr_lens = [chr1 |-> 10]
    /\ Head(hdr) = SQ([SN |-> "chr2"])
    /\ out = <<TrackLine>>

----------------------------------------------------------------------------
(* C12: called with target_start inside the front window and               *)
(* target_end >= target_start, incrementCountsForCoveredWindows computes   *)
(* k = ceil((target_end + 1 - current_window_start) / window_size) >= 1,   *)
(* grows the buffer with trailing zeros to at least k elements and adds 1  *)
(* to exactly its first k elements; the other elements and the order stay. *)

\* Element i of buffer w grown with trailing zeros.
Grown(w, i) == IF i <= Len(w) THEN w[i] ELSE 0

PrefixIncrementStep ==
    (/\ pc = "increment" /\ pc' = "read"
     /\ current_window_start <= fields.target_start
     /\ fields.target_start <= current_window_start + WINDOW_SIZE - 1
     /\ target_end >= fields.target_start)
    => LET k == Ceil(target_end + 1 - current_window_start, WINDOW_SIZE)
       IN  /\ k >= 1
           /\ Len(windows') = Max(Len(windows), k)
           /\ \A i \in 1..Len(windows') :
                  windows'[i] = Grown(windows, i) + (IF i <= k THEN 1 ELSE 0)
           /\ Cardinality({i \in 1..Len(windows') :
                               windows'[i] = Grown(windows, i) + 1}) = k

C12_PrefixIncrement == [][PrefixIncrementStep]_vars

\* After [1,10] and [7,16], the record [7,8] has been counted in the front
\* window alone of a buffer of three.
C12_Witness ==
    /\ pc = "read"
    /\ Len(seen) = 3
    /\ fields.target_start = 7 /\ target_end = 8
    /\ current_window_start = 6
    /\ windows = <<3, 1, 1>>

----------------------------------------------------------------------------
(* C13: for position-sorted input, when the advance loop of a mapped       *)
(* record has ended the front window holds target_start; each iteration of *)
(* the loop prints exactly one count, the popped front element or 0 for an *)
(* empty buffer, and adds window_size to current_window_start.             *)

FrontHoldsStart ==
    (pc = "increment" /\ SortedInput) =>
        /\ current_window_start <= fields.target_start
        /\ fields.target_start <= current_window_start + WINDOW_SIZE - 1

AdvanceIterationStep ==
    (pc = "advance" /\ pc' = "advance") =>
        /\ Len(out') = Len(out) + 1
        /\ SubSeq(out', 1, Len(out)) = out
        /\ out'[Len(out')].kind = "count"
        /\ out'[Len(out')].val = (IF windows = <<>> THEN 0 ELSE Head(windows))
        /\ windows' = (IF windows = <<>> THEN <<>> ELSE Tail(windows))
        /\ current_window_start' = current_window_start + WINDOW_SIZE
        /\ fields.target_start > current_window_start + WINDOW_SIZE - 1

C13_AdvanceReachesStart ==
    []FrontHoldsStart /\ [][AdvanceIterationStep]_vars

\* The loop has popped the count of window 1 and stopped at the window of
\* start 7, which is still stored.
C13_Witness ==
    /\ pc = "increment"
    /\ SortedInput
    /\ Len(seen) = 2
    /\ SpanLen(seen[1]) = 10
    /\ fields.target_start = 7
    /\ current_window_start = 6
    /\ windows = <<1>>
    /\ out[Len(out)] = CountLine("chr1", 1, 1)

----------------------------------------------------------------------------
(* C14: between the records of a position-sorted run the buffer is as long *)
(* as needed: when it is not empty its last element is >= 1 and stands for *)
(* the window that holds the largest span end of the records of the        *)
(* current reference; it is empty only when none of them reaches the front *)
(* window or a later one.                                                  *)

SpanEndsOfCurrent ==
    {SpanEnd(seen[j]) : j \in {i \in 1..Len(seen) :
                                   seen[i].target_name = current_chr}}

SetMax(S) == CHOOSE x \in S : \A y \in S : y <= x

C14_BufferMinimal ==
    (pc = "read" /\ SortedInput) =>
        IF windows /= <<>>
        THEN /\ windows[Len(windows)] >= 1
             /\ SpanEndsOfCurrent /= {}
             /\ WindowOf(current_window_start) + Len(windows) - 1
                    = WindowOf(SetMax(SpanEndsOfCurrent))
        ELSE \A e \in SpanEndsOfCurrent :
                 WindowOf(e) < WindowOf(current_window_start)

\* A short record at 7 after a long one at 1: the buffer still ends at the
\* window of position 10.
C14_Witness ==
    /\ pc = "read"
    /\ SortedInput
    /\ Len(seen) = 2
    /\ seen[1].target_start = 1 /\ SpanLen(seen[1]) = 10
    /\ seen[2].target_start = 7 /\ SpanLen(seen[2]) = 2
    /\ current_window_start = 6
    /\ windows = <<2>>

----------------------------------------------------------------------------
(* C15: a mapped record of another reference than the current one (the     *)
(* first mapped record included) that does not fail leaves, before the     *)
(* advance loop runs, an empty buffer, current_window_start = 1, the new   *)
(* reference's name and header length as current, and exactly one more     *)
(* step declaration, the last line printed; the counts that the buffer     *)
(* held are in the output, before that declaration.                        *)

NumSteps(o) == Cardinality({i \in 1..Len(o) : o[i].kind = "step"})

TransitionStep ==
    (/\ pc = "read" /\ nread' = nread + 1
     /\ fields'.cigar /= STAR
     /\ fields'.target_name /= current_chr
     /\ pc' /= "aborted")
    => /\ pc' = "advance"
       /\ windows' = <<>>
       /\ current_window_start' = 1
       /\ current_chr' = fields'.target_name
       /\ current_chr' \in DOMAIN chr_lens
       /\ current_chr_len' = chr_lens[current_chr']
       /\ NumSteps(out') = NumSteps(out) + 1
       /\ out'[Len(out')] = StepLine(current_chr', 1)
       /\ Len(out') >= Len(out) + Len(windows) + 1
       /\ SubSeq(out', 1, Len(out)) = out
       /\ \A i \in 1..Len(windows) :
              /\ out'[Len(out) + i].kind = "count"
              /\ out'[Len(out) + i].val = windows[i]

C15_TransitionResets == [][TransitionStep]_vars

\* chr2 has just been declared after chr1, whose two stored counts were
\* printed.
C15_Witness ==
    /\ pc = "advance"
    /\ Len(seen) = 2
    /\ seen[1].target_name = "chr1" /\ SpanLen(seen[1]) = 10
    /\ seen[1].target_start = 1
    /\ current_chr = "chr2" /\ current_chr_len = 7
    /\ current_window_start = 1
    /\ windows = <<>>
    /\ CountsOf("chr1") = <<1, 1>>
    /\ out[Len(out)] = StepLine("chr2", 1)

----------------------------------------------------------------------------
(* C16: every run over a finite input ends, by the final flush or by an    *)
(* uncaught exception; every iteration of the advance loop moves the       *)
(* cursor forward, never past the window of target_start, and the final    *)
(* flush leaves the buffer empty.                                          *)

AdvanceProgressStep ==
    (pc = "advance" /\ pc' = "advance") =>
        /\ current_window_start' > current_window_start
        /\ current_window_start' <= fields.target_start
        /\ fields' = fields

FlushEmptiesBuffer ==
    /\ pc = "done" => (windows = <<>> /\ err = "")
    /\ pc = "aborted" => err /= ""

C16_RunTerminates ==
    /\ <>Finished
    /\ []FlushEmptiesBuffer
    /\ [][AdvanceProgressStep]_vars

\* A run has ended after two iterations of the advance loop and the flush
\* of a stored window.
C16_Witness ==
    /\ pc = "done"
    /\ Len(seen) = 1
    /\ fields.target_start = 11
    /\ CountsOf("chr1") = <<0, 0, 1>>
    /\ windows = <<>>

----------------------------------------------------------------------------
(* C17: incrementCountsForCoveredWindows never reorders or lowers the      *)
(* stored counts: after the call every buffer position holds at least the  *)
(* value it held before.                                                   *)

NoCountLowered ==
    /\ Len(windows') >= Len(windows)
    /\ \A i \in 1..Len(windows) : windows'[i] >= windows[i]

\* C17 as claimed: for any mapped record, one whose start and span end are
\* behind current_window_start included.
C17_NeverLowersAnyRecord ==
    [][(pc = "increment" /\ pc' = "read") => NoCountLowered]_vars

\* The claimed statement for records of span length >= 1 alone: it fails as
\* well, for a record over [1,5] while the cursor stands at 11.
C17_NeverLowersPositiveSpan ==
    [][(pc = "increment" /\ pc' = "read" /\ target_len >= 1)
           => NoCountLowered]_vars

\* C17 as amended: for any mapped record whose span end is less than a whole
\* window behind the cursor (target_end >= current_window_start -
\* window_size, so that num_windows_covered >= 0), one whose start is behind
\* current_window_start included.
C17_NeverLowersNearCursor ==
    [][(/\ pc = "increment" /\ pc' = "read"
        /\ target_end >= current_window_start - WINDOW_SIZE)
           => NoCountLowered]_vars

\* An unsorted record over [1,10] has been counted while the cursor stood
\* at 6 and the buffer held three windows.
C17_Witness ==
    /\ pc = "read"
    /\ ~SortedInput
    /\ fields.target_start = 1 /\ target_end = 10
    /\ current_window_start = 6
    /\ windows = <<2, 1, 1>>

----------------------------------------------------------------------------
(* C18: current_window_start is always 1 + j * window_size for some        *)
(* j >= 0, and it never decreases except at a reference transition.        *)

CursorOnBoundary ==
    /\ current_window_start >= 1
    /\ (current_window_start - 1) % WINDOW_SIZE = 0

CursorMonotoneStep ==
    ~(pc = "read" /\ pc' = "advance" /\ current_chr' /= current_chr)
        => current_window_start' >= current_window_start

C18_CursorOnWindowBoundary ==
    []CursorOnBoundary /\ [][CursorMonotoneStep]_vars

\* The cursor has advanced twice within chr1 and its buffer was flushed.
C18_Witness ==
    /\ pc = "done"
    /\ current_chr = "chr1"
    /\ fields.target_start = 11
    /\ current_window_start = 16

----------------------------------------------------------------------------
(* The Span Calculator on its own: SpecCigar draws a CIGAR made of up to   *)
(* MaxOps (length, operation) pairs, writes it as the string the program   *)
(* reads and applies sumTargetConsumingCigarOps to it (line 145).          *)

CigarOperations == {"M", "I", "D", "N", "S", "H", "P", "=", "X"}

CigarLengths == {1, 10, 23}

CigarPairs == [len : CigarLengths, op : CigarOperations]

CigarPairSeqs == UNION {[1..n -> CigarPairs] : n \in 0..MaxOps}

\* The decimal digits of n >= 0.
RECURSIVE Decimal(_)
Decimal(n) ==
    IF n < 10 THEN <<Digits[n + 1]>>
    ELSE Decimal(n \div 10) \o <<Digits[(n % 10) + 1]>>

\* The CIGAR string of a sequence of pairs.
RECURSIVE CigarString(_)
CigarString(ops) ==
    IF ops = <<>> THEN <<>>
    ELSE CigarString(SubSeq(ops, 1, Len(ops) - 1))
         \o Decimal(ops[Len(ops)].len) \o <<ops[Len(ops)].op>>

InitCigar ==
    /\ pc = "cigar"
    /\ cigar_ops \in CigarPairSeqs
    /\ fields = [target_name |-> "chr1", target_start |-> 1,
                 cigar |-> CigarString(cigar_ops)]
    /\ hdr = <<>>
    /\ chr_lens = EmptyDict
    /\ windows = <<>>
    /\ current_chr = ""
    /\ current_chr_len = 0
    /\ current_window_start = 1
    /\ target_len = 0
    /\ target_end = 0
    /\ out = <<TrackLine>>
    /\ seen = <<>>
    /\ nread = 0
    /\ err = ""

\* Line 145: target_len = sumTargetConsumingCigarOps(cigar).
ApplySpanCalculator ==
    /\ pc = "cigar"
    /\ target_len' = sumTargetConsumingCigarOps(fields.cigar)
    /\ pc' = "cigar_done"
    /\ UNCHANGED <<hdr, chr_lens, windows, current_chr, current_chr_len,
                   current_window_start, fields, target_end, out, seen, nread,
                   err, cigar_ops>>

NextCigar == ApplySpanCalculator

SpecCigar == InitCigar /\ [][NextCigar]_vars

----------------------------------------------------------------------------
(* C10: the Span Calculator returns the sum of the lengths of exactly the  *)
(* pairs whose operation is M, D, X or =; I, S, H, P and N add nothing and *)
(* a string without M, D, X or = gives 0.  The string is left as it was.   *)

RECURSIVE ReferenceConsumed(_)
ReferenceConsumed(ops) ==
    IF ops = <<>> THEN 0
    ELSE (IF Head(ops).op \in {"M", "D", "X", "="} THEN Head(ops).len ELSE 0)
         + ReferenceConsumed(Tail(ops))

C10_SpanIsSumOfConsumingOps ==
    pc = "cigar_done" =>
        /\ target_len = ReferenceConsumed(cigar_ops)
        /\ (\A k \in 1..Len(cigar_ops) :
                cigar_ops[k].op \in {"I", "S", "H", "P", "N"}) => target_len = 0
        /\ fields.cigar = CigarString(cigar_ops)

\* 23X10S has been summed to 23.
C10_Witness ==
    /\ pc = "cigar_done"
    /\ cigar_ops = <<[len |-> 23, op |-> "X"], [len |-> 10, op |-> "S"]>>
    /\ fields.cigar = <<"2", "3", "X", "1", "0", "S">>
    /\ target_len = 23

====
